---- MODULE Spec2Model ----
(***************************************************************************)
(* Spaced-repetition scheduling of BrainTrack / MemoryBoost.               *)
(*                                                                         *)
(*   - calculateNextReview (client scheduling module): interval policy     *)
(*     with multiplicative jitter.                                         *)
(*   - POST /api/memories/:id/review (server/routes.ts): the review        *)
(*     submission handler, an async function that suspends at every        *)
(*     await, on top of MemStorage (server/storage.ts, objects shared by   *)
(*     reference) or DatabaseStorage (rows copied on every read).          *)
(*   - TensorFlowAIService.optimizeReviewInterval: the linear interval     *)
(*     prediction the handler starts from.                                 *)
(*                                                                         *)
(* Rational quantities (jitter factor, accuracy rate, prediction) are      *)
(* kept as exact integer fractions.                                        *)
(***************************************************************************)
EXTENDS Integers, Sequences, FiniteSets, TLC

(* ------------------------------ bounds -------------------------------- *)

\* Math.random() is drawn as k / (2 * JitterHalf), k in 0 .. 2*JitterHalf-1;
\* k = JitterHalf is the draw 0.5, i.e. zero jitter. k = 2*JitterHalf is the
\* largest double below 1 (1 - 2^-53, which engines drawing 53 random bits
\* return): in double arithmetic Math.random() * 0.2 - 0.1 is then
\* 0.09999999999999998 and 1 + jitter rounds to the double 1.1, so that
\* the product is computed as intervalDays * 1.1.
JitterHalf == 10

\* latest day, and longest interval in days, of the dates handed to the due
\* query
MaxDueDay == 1

\* largest reviewCount handed to calculateNextReview
MaxCount == 12

\* number of review (and edit) requests the server is sent
MaxReviews == 2

\* number of clock advances
MaxTicks == 1

(* --------------------------- program constants ------------------------ *)

DAY_MS == 86400000

Max(a, b) == IF a >= b THEN a ELSE b

\* A Date: whole days and milliseconds within the day since the start of
\* the run, so that adding days never leaves the range of the integers.
Epoch == [d |-> 0, ms |-> 0]

\* the interval subtracted from the date
AddDays_Back(t, n) == [t EXCEPT !.d = @ - n]

\* one day more than the interval
AddDays_OneMore(t, n) == [t EXCEPT !.d = @ + n + 1]

\* date + n * 24 * 60 * 60 * 1000 ms (setDate(getDate() + n))
AddDays(t, n) == [t EXCEPT !.d = @ + n]

AddMs(t) == IF t.ms + 1 = DAY_MS THEN [d |-> t.d + 1, ms |-> 0]
            ELSE [t EXCEPT !.ms = @ + 1]

\* a due query that leaves out the memories due at this very instant
Leq_Strict(t1, t2) == t1.d < t2.d \/ (t1.d = t2.d /\ t1.ms < t2.ms)

\* t1.getTime() <= t2.getTime()
Leq(t1, t2) == t1.d < t2.d \/ (t1.d = t2.d /\ t1.ms <= t2.ms)

\* the scores a request body can carry: the four grades, and two values
\* outside the grades
Scores == {-1, 0, 1, 2, 3, 4}

ValidScores == {0, 1, 2, 3}

\* req.body.score of the review requests: the four grades and a value outside
\* them
PostedScores == {0, 1, 2, 3, 4}

\* req.body.notes: absent/empty, or a text
NotesIn == {"", "n"}

Users == {1, 2}

\* the users who capture memories; the others only send requests
Creators == {1}

\* the ids createMemory hands out
MemIds == {1}

Handlers == {1, 2}

\* memory.emotion (1-10 scale) of the memories created
Emotions == {1, 10}

\* memory.description.length of the memories created
DescLens == {0}

(* ------------------------ calculateNextReview ------------------------- *)

\* the multiplier taken after this review's increment
BaseInterval_PostIncrement(score, reviewCount) ==
  CASE score = 0 -> 1
    [] score = 1 -> Max(1, (reviewCount + 1) \div 2)
    [] score = 2 -> Max(1, (reviewCount + 1) * 2)
    [] score = 3 -> Max(1, (reviewCount + 1) * 4)
    [] OTHER -> 1

\* Hard taking three times the count
BaseInterval_HardTriples(score, reviewCount) ==
  CASE score = 0 -> 1
    [] score = 1 -> Max(1, reviewCount * 3)
    [] score = 2 -> Max(1, reviewCount * 2)
    [] score = 3 -> Max(1, reviewCount * 4)
    [] OTHER -> 1

\* the multiplier starting over at every third review
BaseInterval_Wrap(score, reviewCount) ==
  CASE score = 0 -> 1
    [] score = 1 -> Max(1, (reviewCount % 3) \div 2)
    [] score = 2 -> Max(1, (reviewCount % 3) * 2)
    [] score = 3 -> Max(1, (reviewCount % 3) * 4)
    [] OTHER -> 1

\* the switch of calculateNextReview: intervalDays starts at 1 and a score
\* matching no case leaves it there
BaseInterval(score, reviewCount) ==
  CASE score = 0 -> 1
    [] score = 1 -> Max(1, reviewCount \div 2)
    [] score = 2 -> Max(1, reviewCount * 2)
    [] score = 3 -> Max(1, reviewCount * 4)
    [] OTHER -> 1

\* the jittered interval without Math.max(1, .)
ApplyJitter_NoClamp(intervalDays, k) ==
  (intervalDays * (9 * JitterHalf + k)) \div (10 * JitterHalf)

\* jitter of +-20%: Math.random() * 0.4 - 0.2
ApplyJitter_Wide(intervalDays, k) ==
  Max(1, (intervalDays * (8 * JitterHalf + 2 * k)) \div (10 * JitterHalf))

\* Math.ceil in place of Math.floor
ApplyJitter_Ceil(intervalDays, k) ==
  Max(1, (intervalDays * (9 * JitterHalf + k) + 10 * JitterHalf - 1)
         \div (10 * JitterHalf))

\* jitter of up to +15%
ApplyJitter_Longer(intervalDays, k) ==
  Max(1, (intervalDays * (18 * JitterHalf + 3 * k)) \div (20 * JitterHalf))

\* jitter = Math.random() * 0.2 - 0.1 with Math.random() = k / (2*JitterHalf):
\* 1 + jitter = (9*JitterHalf + k) / (10*JitterHalf);
\* intervalDays = Math.max(1, Math.floor(intervalDays * (1 + jitter)))
ApplyJitter(intervalDays, k) ==
  Max(1, (intervalDays * (9 * JitterHalf + k)) \div (10 * JitterHalf))

calculateNextReview(score, reviewCount, k, today) ==
  LET intervalDays == ApplyJitter(BaseInterval(score, reviewCount), k)
  IN  [score |-> score,
       interval |-> intervalDays,
       nextReview |-> AddDays(today, intervalDays)]

(* ------------------- optimizeReviewInterval (AI service) -------------- *)

\* userPerformance.accuracyRate || 0, kept as the fraction
\* 100 * accGood / accTotal (0 when nothing was reviewed)
\* predictOptimalInterval: sum(features * [2, 1.5, 3, 2, 0.5, 0.3]) with
\* features [emotion/10, reviewCount, lastScore/3, accuracyRate,
\* description.length/1000, tags.length], then Math.max(1, .).
\* The sum is PredictionNum / PredictionDen.
PredictionDen(ua) == 2000 * Max(1, ua.accTotal)

PredictionNum(memory, ua) ==
  LET T == Max(1, ua.accTotal)
  IN  400 * memory.emotion * T
      + 3000 * memory.reviewCount * T
      + 2000 * memory.lastScore * T
      + (IF ua.accTotal > 0 THEN 400000 * ua.accGood ELSE 0)
      + memory.descLen * T
      + 600 * memory.tagCount * T

\* Math.max(1, Math.round(Math.max(1, prediction))); Math.round rounds
\* halves up
optimizeReviewInterval(memory, ua) ==
  LET num == PredictionNum(memory, ua)
      den == PredictionDen(ua)
  IN  IF num <= den THEN 1
      ELSE Max(1, (2 * num + den) \div (2 * den))

\* Again keeping the prediction
AdjustInterval_AgainKeeps(optimizedInterval, score) ==
  CASE score = 0 -> optimizedInterval
    [] score = 1 -> Max(1, (optimizedInterval * 7) \div 10)
    [] score = 2 -> optimizedInterval
    [] score = 3 -> (optimizedInterval * 3) \div 2
    [] OTHER -> optimizedInterval

\* Again granting no day at all
AdjustInterval_AgainNow(optimizedInterval, score) ==
  CASE score = 0 -> 0
    [] score = 1 -> Max(1, (optimizedInterval * 7) \div 10)
    [] score = 2 -> optimizedInterval
    [] score = 3 -> (optimizedInterval * 3) \div 2
    [] OTHER -> optimizedInterval

\* Hard without Math.max(1, .)
AdjustInterval_NoFloor(optimizedInterval, score) ==
  CASE score = 0 -> 1
    [] score = 1 -> (optimizedInterval * 7) \div 10
    [] score = 2 -> optimizedInterval
    [] score = 3 -> (optimizedInterval * 3) \div 2
    [] OTHER -> optimizedInterval

\* Easy and Hard exchanged
AdjustInterval_Swapped(optimizedInterval, score) ==
  CASE score = 0 -> 1
    [] score = 3 -> Max(1, (optimizedInterval * 7) \div 10)
    [] score = 2 -> optimizedInterval
    [] score = 1 -> (optimizedInterval * 3) \div 2
    [] OTHER -> optimizedInterval

\* the switch of the review route: a score matching no case keeps the
\* prediction
AdjustInterval(optimizedInterval, score) ==
  CASE score = 0 -> 1
    [] score = 1 -> Max(1, (optimizedInterval * 7) \div 10)
    [] score = 2 -> optimizedInterval
    [] score = 3 -> (optimizedInterval * 3) \div 2
    [] OTHER -> optimizedInterval

(* ------------------------------- state -------------------------------- *)

VARIABLES
  storageKind,  \* which storage module backs `storage`: "mem" or "db"
  memories,     \* id -> memory record, for the ids stored
  currentMemoryId, \* MemStorage.currentMemoryId / the serial of memories.id
  arrays,       \* heap of reviewHistory arrays
  analytics,    \* userId -> user_analytics record
  handlers,     \* the review handler invocations and their locals
  now,          \* the clock
  started,      \* review and edit requests received so far
  accepted,     \* id -> reviews written by updateMemory so far
  calcIn,       \* the review handed to the interval computations
  calcOut,      \* their results (called = FALSE before the call)
  dueOut,       \* the last response of GET /api/memories/due
  resp,         \* the last response to an edit or delete request
  session       \* the review page of user 1's browser

vars == <<storageKind, memories, currentMemoryId, arrays, analytics, handlers, now, started,
          accepted, calcIn, calcOut, dueOut, resp, session>>

serverVars == <<storageKind, memories, currentMemoryId, arrays, analytics, handlers, now,
                started, accepted>>

\* the array a stored memory owns, and the array a handler deserialized
RowArr(id) == <<"row", id>>

ReqArr(h) == <<"req", h>>

ArrIds == {RowArr(id) : id \in MemIds} \cup {ReqArr(h) : h \in Handlers}

\* createUserAnalytics
NewAnalytics ==
  [totalMemories |-> 0, dueForReview |-> 0, accGood |-> 0, accTotal |-> 0]

\* the locals of a handler that holds no memory
NoMemory ==
  [userId |-> 0, emotion |-> 0, descLen |-> 0, tagCount |-> 0,
   nextReview |-> Epoch, reviewCount |-> 0, lastScore |-> 0,
   reviewHistory |-> <<"none", 0>>, createdAt |-> Epoch]

\* status: the response sent by the handler's last request (0: none yet)
IdleHandler ==
  [pc |-> "idle", id |-> 0, user |-> 0, score |-> 0, notes |-> "",
   now |-> Epoch, reviewCount |-> 0, memory |-> NoMemory,
   userAnalytics |-> NewAnalytics, status |-> 0]

NoCall == [score |-> 0, reviewCount |-> 0, k |-> 0, emotion |-> 0, lastScore |-> 0]

NoResult ==
  [module |-> [score |-> 0, interval |-> 0, nextReview |-> Epoch],
   route |-> 0, called |-> FALSE]

\* both users are registered (createUser) and nothing else has happened
InitServer ==
  /\ storageKind \in {"mem", "db"}
  /\ memories = <<>>
  /\ currentMemoryId = 1
  /\ arrays = [a \in ArrIds |-> <<>>]
  /\ analytics = [u \in Users |-> NewAnalytics]
  /\ handlers = [h \in Handlers |-> IdleHandler]
  /\ now = Epoch
  /\ started = 0
  /\ accepted = [id \in MemIds |-> 0]

\* no edit or delete request has been answered
NoResp == [op |-> "none", req |-> 0, id |-> 0, user |-> 0, status |-> 0]

\* no due list has been asked for
\* the review page before it is opened. fetch: the request for the
\* ["/api/memories/due"] query; mutation: submitReviewMutation
NoFetch == [state |-> "idle", data |-> <<>>]

NoMutation == [state |-> "idle", id |-> 0, score |-> 0, status |-> 0]

NoSession ==
  [page |-> "none", loaded |-> FALSE, dueMemories |-> <<>>,
   memories |-> <<>>, currentIndex |-> 0, phase |-> "pre-review",
   fetch |-> NoFetch, mutation |-> NoMutation]

NoDue == [called |-> FALSE, user |-> 0, ids |-> {}, list |-> <<>>]

Init ==
  /\ InitServer
  /\ calcIn = NoCall
  /\ calcOut = NoResult
  /\ dueOut = NoDue
  /\ resp = NoResp
  /\ session = NoSession

(* ------------------------------ storage ------------------------------- *)

MemoriesOf(mems, u) == {id \in DOMAIN mems : mems[id].userId = u}

\* a due filter that forgets the owner
DueOf_AnyOwner(mems, u, t) == {id \in DOMAIN mems : Leq(mems[id].nextReview, t)}

\* getMemoriesDueForReview: userId === userId && nextReview <= now
DueOf(mems, u, t) == {id \in MemoriesOf(mems, u) : Leq(mems[id].nextReview, t)}

\* the orders in which the ids of S can be listed
Orders(S) ==
  {q \in [1 .. Cardinality(S) -> S] : \A i, j \in DOMAIN q : i # j => q[i] # q[j]}

\* a.nextReview.getTime() - b.nextReview.getTime() <= 0 along the list
ByNextReview(mems, q) ==
  \A i, j \in DOMAIN q : i < j => Leq(mems[q[i]].nextReview, mems[q[j]].nextReview)

\* MemStorage: Array.from(this.memories.values()).filter(...).sort(...); the
\* map lists the memories in the order of their creation and the sort is
\* stable, memories with the same nextReview stay in id order
MemDueQueue(mems, u, t) ==
  CHOOSE q \in Orders(DueOf(mems, u, t)) :
    /\ ByNextReview(mems, q)
    /\ \A i, j \in DOMAIN q :
         (i < j /\ mems[q[i]].nextReview = mems[q[j]].nextReview) => q[i] < q[j]

\* DatabaseStorage: SELECT ... WHERE user_id = u AND next_review <= now
\* ORDER BY next_review; rows with the same next_review come in an order
\* the database chooses
DbDueQueues(mems, u, t) ==
  {q \in Orders(DueOf(mems, u, t)) : ByNextReview(mems, q)}

\* the lists storage.getMemoriesDueForReview(userId) can return
getMemoriesDueForReview(kind, mems, u, t) ==
  IF kind = "mem" THEN {MemDueQueue(mems, u, t)} ELSE DbDueQueues(mems, u, t)

\* updateAnalyticsAfterMemoryCreation / ...Deletion
RefreshCounts(an, mems, u, t) ==
  [an EXCEPT ![u].totalMemories = Cardinality(MemoriesOf(mems, u)),
             ![u].dueForReview = Cardinality(DueOf(mems, u, t))]

\* a new memory first due a day after its creation
NewMemory_Tomorrow(id, u, e, dl) ==
  [userId |-> u, emotion |-> e, descLen |-> dl, tagCount |-> 0,
   nextReview |-> AddDays(now, 1), reviewCount |-> 0, lastScore |-> 0,
   reviewHistory |-> RowArr(id), createdAt |-> now]

\* createMemory: id = currentMemoryId++, nextReview and createdAt the same
\* new Date(), nothing reviewed
NewMemory(id, u, e, dl) ==
  [userId |-> u, emotion |-> e, descLen |-> dl, tagCount |-> 0,
   nextReview |-> now, reviewCount |-> 0, lastScore |-> 0,
   reviewHistory |-> RowArr(id), createdAt |-> now]

\* POST /api/memories -> storage.createMemory
CreateMemory(u, e, dl) ==
  /\ currentMemoryId \in MemIds
  /\ LET id == currentMemoryId
         mems == [i \in DOMAIN memories \cup {id} |->
                    IF i = id THEN NewMemory(id, u, e, dl) ELSE memories[i]]
     IN  /\ memories' = mems
         /\ currentMemoryId' = id + 1
         /\ arrays' = [arrays EXCEPT ![RowArr(id)] = <<>>]
         /\ analytics' = RefreshCounts(analytics, mems, u, now)
  /\ UNCHANGED <<storageKind, handlers, now, started, accepted,
                 calcIn, calcOut, dueOut, resp, session>>

\* time passes: a millisecond, or a day
Tick(day) ==
  /\ now.d + now.ms < MaxTicks
  /\ now' = IF day THEN AddDays(now, 1) ELSE AddMs(now)
  /\ UNCHANGED <<storageKind, memories, currentMemoryId, arrays, analytics,
                 handlers, started, accepted, calcIn, calcOut, dueOut, resp, session>>

(* ---------------- POST /api/memories/:id/review ----------------------- *)

SetHandler(h, rec) == [handlers EXCEPT ![h] = rec]

\* the guard without the comparison of the owner
NotFound_AnyOwner(mems, id, u) == id \notin DOMAIN mems

\* !memory || memory.userId !== req.session.userId
NotFound(mems, id, u) == id \notin DOMAIN mems \/ mems[id].userId # u

\* notes || null
NotesOrNull(notes) == IF notes = "" THEN "null" ELSE notes

\* the history a reader of the stored memory sees
HistoryOf(mems, arrs, id) == arrs[mems[id].reviewHistory]

\* lines 242-254: a request arrives; getMemory, the 404 guard, then
\* now = new Date() and reviewCount = memory.reviewCount + 1.
\* MemStorage hands out the stored object (its reviewHistory array is the
\* stored array); DatabaseStorage hands out a copy of the row.
ReviewGet(h, id, u, score, notes) ==
  /\ handlers[h].pc = "idle"
  /\ \A g \in Handlers : g < h => handlers[g].pc # "idle"
  /\ started < MaxReviews
  /\ started' = started + 1
  /\ IF NotFound(memories, id, u)
     THEN /\ handlers' = SetHandler(h, [IdleHandler EXCEPT !.status = 404])
          /\ arrays' = arrays
     ELSE LET ref == IF storageKind = "mem" THEN memories[id].reviewHistory
                     ELSE ReqArr(h)
          IN  /\ handlers' = SetHandler(h,
                   [pc |-> "analytics", id |-> id, user |-> u, score |-> score,
                    notes |-> notes, now |-> now,
                    reviewCount |-> memories[id].reviewCount + 1,
                    memory |-> [memories[id] EXCEPT !.reviewHistory = ref],
                    userAnalytics |-> NewAnalytics, status |-> 0])
              /\ arrays' = IF storageKind = "mem" THEN arrays
                           ELSE [arrays EXCEPT ![ReqArr(h)] = HistoryOf(memories, arrays, id)]
  /\ UNCHANGED <<storageKind, memories, currentMemoryId, analytics, now,
                 accepted, calcIn, calcOut, dueOut, resp, session>>

\* line 257: userAnalytics = await storage.getUserAnalytics(userId)
ReviewAnalytics(h) ==
  /\ handlers[h].pc = "analytics"
  /\ handlers' = SetHandler(h, [handlers[h] EXCEPT
                                  !.userAnalytics = analytics[handlers[h].user],
                                  !.pc = "predict"])
  /\ UNCHANGED <<storageKind, memories, currentMemoryId, arrays, analytics,
                 now, started, accepted, calcIn, calcOut, dueOut, resp, session>>

\* lines 260-277: the interval granted to this review
GrantedInterval(memory, ua, score) ==
  AdjustInterval(optimizeReviewInterval(memory, ua), score)

\* the record carrying the memory's previous lastScore
ReviewRecord_StaleScore(l, intervalDays) ==
  [timestamp |-> l.now, score |-> l.memory.lastScore, interval |-> intervalDays,
   notes |-> NotesOrNull(l.notes)]

\* lines 283-288: the record pushed onto reviewHistory
ReviewRecord(l, intervalDays) ==
  [timestamp |-> l.now, score |-> l.score, interval |-> intervalDays,
   notes |-> NotesOrNull(l.notes)]

\* the history restarted from [] on every review
PushRecord_Restart(hist, rec) == <<rec>>

\* unshift in place of push
PushRecord_Front(hist, rec) == <<rec>> \o hist

\* lines 282-288: reviewHistory.push(record) on the handler's array
PushRecord(hist, rec) == Append(hist, rec)

\* reviewCount left out of the update
updateMemory_NoCount(mems, id, nextReview, reviewCount, lastScore, ref) ==
  IF id \notin DOMAIN mems THEN mems
  ELSE [mems EXCEPT ![id] = [@ EXCEPT !.nextReview = nextReview,
                                      !.lastScore = lastScore,
                                      !.reviewHistory = ref]]

\* storage.updateMemory(id, {nextReview, reviewCount, lastScore,
\* reviewHistory}): the stored memory with these four fields replaced;
\* nothing when the id is not stored
updateMemory(mems, id, nextReview, reviewCount, lastScore, ref) ==
  IF id \notin DOMAIN mems THEN mems
  ELSE [mems EXCEPT ![id] = [@ EXCEPT !.nextReview = nextReview,
                                      !.reviewCount = reviewCount,
                                      !.lastScore = lastScore,
                                      !.reviewHistory = ref]]

\* lines 260-295: the prediction resolves; the switch, nextReview, the push
\* onto the handler's reviewHistory array and the call of updateMemory
ReviewWrite(h) ==
  /\ handlers[h].pc = "predict"
  /\ LET l == handlers[h]
         intervalDays == GrantedInterval(l.memory, l.userAnalytics, l.score)
         nextReview == AddDays(l.now, intervalDays)
         ref == l.memory.reviewHistory
         pushed == PushRecord(arrays[ref], ReviewRecord(l, intervalDays))
         stored == l.id \in DOMAIN memories
     IN  /\ arrays' = IF storageKind = "mem" \/ ~stored
                      THEN [arrays EXCEPT ![ref] = pushed]
                      ELSE [arrays EXCEPT ![ref] = pushed, ![RowArr(l.id)] = pushed]
         /\ memories' = updateMemory(memories, l.id, nextReview, l.reviewCount,
                                     l.score,
                                     IF storageKind = "mem" THEN ref ELSE RowArr(l.id))
         /\ accepted' = IF stored THEN [accepted EXCEPT ![l.id] = @ + 1] ELSE accepted
         /\ handlers' = SetHandler(h, [l EXCEPT !.pc = "recompute"])
  /\ UNCHANGED <<storageKind, currentMemoryId, analytics, now, started,
                 calcIn, calcOut, dueOut, resp, session>>

RECURSIVE SumOver(_, _)
\* reduce((sum, m) => sum + f[m], 0)
SumOver(S, f) ==
  IF S = {} THEN 0
  ELSE LET x == CHOOSE y \in S : TRUE IN f[x] + SumOver(S \ {x}, f)

\* a filter that keeps the records graded good or easy only
GoodCount_GoodOrEasy(hist) == Cardinality({i \in DOMAIN hist : hist[i].score >= 3})

\* history.filter(r => r.score >= 2).length
GoodCount(hist) == Cardinality({i \in DOMAIN hist : hist[i].score >= 2})

\* updateUserAnalyticsAfterReview: accuracyRate = goodReviews / totalReviews
\* * 100 over the memories with reviewCount > 0, 0 without reviews
updateUserAnalyticsAfterReview(an, mems, arrs, u, t) ==
  LET reviewed == {id \in MemoriesOf(mems, u) : mems[id].reviewCount > 0}
      totalReviews == SumOver(reviewed, [id \in reviewed |-> mems[id].reviewCount])
      goodReviews == SumOver(reviewed,
                       [id \in reviewed |-> GoodCount(HistoryOf(mems, arrs, id))])
  IN  [RefreshCounts(an, mems, u, t) EXCEPT
         ![u].accGood = IF totalReviews > 0 THEN goodReviews ELSE 0,
         ![u].accTotal = IF totalReviews > 0 THEN totalReviews ELSE 0]

\* lines 297-300: the analytics are recomputed and the memory is sent back.
\* MemStorage: the awaits of updateUserAnalyticsAfterReview resume without
\* another request running in between, the read and the write are one step.
\* DatabaseStorage: the queries of lines 356-357 are answered first; the
\* values computed from them are kept (here in userAnalytics) until
\* updateUserAnalytics writes them (ReviewStore).
ReviewRecompute(h) ==
  /\ handlers[h].pc = "recompute"
  /\ LET u == handlers[h].user
         computed == updateUserAnalyticsAfterReview(analytics, memories, arrays,
                                                    u, now)
     IN  IF storageKind = "mem"
         THEN /\ analytics' = computed
              /\ handlers' = SetHandler(h, [IdleHandler EXCEPT !.status = 200])
              /\ arrays' = [arrays EXCEPT ![ReqArr(h)] = <<>>]
         ELSE /\ analytics' = analytics
              /\ handlers' = SetHandler(h, [handlers[h] EXCEPT
                                              !.userAnalytics = computed[u],
                                              !.pc = "store"])
              /\ arrays' = arrays
  /\ UNCHANGED <<storageKind, memories, currentMemoryId, now, started,
                 accepted, calcIn, calcOut, dueOut, resp, session>>

\* line 373 on DatabaseStorage: updateUserAnalytics writes the four values
\* computed from the earlier queries; line 300 sends the memory back
ReviewStore(h) ==
  /\ handlers[h].pc = "store"
  /\ analytics' = [analytics EXCEPT ![handlers[h].user] = handlers[h].userAnalytics]
  /\ handlers' = SetHandler(h, [IdleHandler EXCEPT !.status = 200])
  /\ arrays' = [arrays EXCEPT ![ReqArr(h)] = <<>>]
  /\ UNCHANGED <<storageKind, memories, currentMemoryId, now, started,
                 accepted, calcIn, calcOut, dueOut, resp, session>>

\* lines 301-303: an awaited call rejects and the catch answers 500.
\* With DatabaseStorage a query can fail, and the server process can have
\* been restarted, so that aiService.initialize() runs again and can throw.
\* The call awaited at "analytics" is storage.getUserAnalytics, at "predict"
\* aiService.optimizeReviewInterval, and at "recompute" and "store" a query
\* of updateUserAnalyticsAfterReview, after updateMemory has written.
ReviewFail(h) ==
  /\ storageKind = "db"
  /\ handlers[h].pc \in {"analytics", "predict", "recompute", "store"}
  /\ handlers' = SetHandler(h, [IdleHandler EXCEPT !.status = 500])
  /\ arrays' = [arrays EXCEPT ![ReqArr(h)] = <<>>]
  /\ UNCHANGED <<storageKind, memories, currentMemoryId, analytics, now,
                 started, accepted, calcIn, calcOut, dueOut, resp, session>>

(* ----------------------- PUT /api/memories/:id ------------------------ *)

\* req.body of an edit: one key and its value. The edit form sends content
\* fields (emotion); nothing filters the body, so it may as well carry a
\* column of the scheduling state. A nextReview arrives as a JSON string.
PutBodies ==
  {[key |-> "emotion", num |-> e, date |-> Epoch] : e \in Emotions}
    \cup {[key |-> "reviewCount", num |-> n, date |-> Epoch] : n \in {0, 5}}
    \cup {[key |-> "lastScore", num |-> 3, date |-> Epoch]}
    \cup {[key |-> "nextReview", num |-> 0, date |-> [d |-> 9, ms |-> 0]]}

\* {...memory, ...updates}
ApplyUpdates(memory, body) ==
  CASE body.key = "emotion" -> [memory EXCEPT !.emotion = body.num]
    [] body.key = "reviewCount" -> [memory EXCEPT !.reviewCount = body.num]
    [] body.key = "lastScore" -> [memory EXCEPT !.lastScore = body.num]
    [] body.key = "nextReview" -> [memory EXCEPT !.nextReview = body.date]

\* getMemory, the 404 guard, storage.updateMemory(id, req.body).
\* MemStorage spreads the body over the stored memory; DatabaseStorage sets
\* the columns named in the body, and its timestamp column rejects a string
\* (the handler answers 500 and nothing is written).
PutMemory(id, u, body) ==
  /\ started < MaxReviews
  /\ started' = started + 1
  /\ memories' =
       IF NotFound(memories, id, u) THEN memories
       ELSE IF storageKind = "db" /\ body.key = "nextReview" THEN memories
       ELSE [memories EXCEPT ![id] = ApplyUpdates(@, body)]
  /\ resp' = [op |-> "put", req |-> started + 1, id |-> id, user |-> u,
              status |-> IF NotFound(memories, id, u)
                         THEN 404
                         ELSE IF storageKind = "db" /\ body.key = "nextReview"
                         THEN 500 ELSE 200]
  /\ UNCHANGED <<storageKind, currentMemoryId, arrays, analytics, handlers,
                 now, accepted, calcIn, calcOut, dueOut, session>>

(* ---------------------- DELETE /api/memories/:id ---------------------- *)

\* the memory left in the store
deleteMemory_Keeps(mems, id) == mems

\* storage.deleteMemory: this.memories.delete(id) / DELETE FROM memories
deleteMemory(mems, id) == [i \in DOMAIN mems \ {id} |-> mems[i]]

\* getMemory, the 404 guard, storage.deleteMemory(id), which removes the
\* memory and refreshes the owner's analytics counts
DeleteMemory(id, u) ==
  /\ started < MaxReviews
  /\ started' = started + 1
  /\ IF NotFound(memories, id, u)
     THEN /\ resp' = [op |-> "delete", req |-> started + 1, id |-> id,
                      user |-> u, status |-> 404]
          /\ UNCHANGED <<memories, arrays, analytics>>
     ELSE LET mems == deleteMemory(memories, id)
          IN  /\ resp' = [op |-> "delete", req |-> started + 1, id |-> id,
                          user |-> u, status |-> 200]
              /\ memories' = mems
              /\ arrays' = IF id \in DOMAIN mems THEN arrays
                           ELSE [arrays EXCEPT ![RowArr(id)] = <<>>]
              /\ analytics' = RefreshCounts(analytics, mems, u, now)
  /\ UNCHANGED <<storageKind, currentMemoryId, handlers, now, accepted,
                 calcIn, calcOut, dueOut, session>>

(* -------------------------- specifications ---------------------------- *)

Next ==
  \/ \E u \in Creators, e \in Emotions, dl \in DescLens : CreateMemory(u, e, dl)
  \/ \E day \in BOOLEAN : Tick(day)
  \/ \E h \in Handlers, id \in MemIds, u \in Users, score \in PostedScores,
        notes \in NotesIn : ReviewGet(h, id, u, score, notes)
  \/ \E h \in Handlers : ReviewAnalytics(h)
  \/ \E h \in Handlers : ReviewWrite(h)
  \/ \E h \in Handlers : ReviewRecompute(h)
  \/ \E h \in Handlers : ReviewStore(h)

\* the server under concurrent requests
Spec == Init /\ [][Next]_vars

\* a review request arrives only when no other review is in flight
SeqReviewGet(h, id, u, score, notes) ==
  /\ \A g \in Handlers : handlers[g].pc = "idle"
  /\ ReviewGet(h, id, u, score, notes)

NextSeq ==
  \/ \E u \in Creators, e \in Emotions, dl \in DescLens : CreateMemory(u, e, dl)
  \/ \E day \in BOOLEAN : Tick(day)
  \/ \E h \in Handlers, id \in MemIds, u \in Users, score \in PostedScores,
        notes \in NotesIn : SeqReviewGet(h, id, u, score, notes)
  \/ \E h \in Handlers : ReviewAnalytics(h)
  \/ \E h \in Handlers : ReviewWrite(h)
  \/ \E h \in Handlers : ReviewRecompute(h)
  \/ \E h \in Handlers : ReviewStore(h)

\* the server with review submissions applied one at a time
SpecSeq == Init /\ [][NextSeq]_vars

NextPut ==
  \/ NextSeq
  \/ \E id \in MemIds, u \in Users, body \in PutBodies : PutMemory(id, u, body)

\* reviews one at a time, and memories edited with any request body
SpecPut == Init /\ [][NextPut]_vars

NextFail ==
  \/ \E u \in Creators, e \in Emotions, dl \in DescLens : CreateMemory(u, e, dl)
  \/ \E h \in Handlers, id \in MemIds, u \in Users, score \in PostedScores,
        notes \in NotesIn : SeqReviewGet(h, id, u, score, notes)
  \/ \E h \in Handlers : ReviewAnalytics(h)
  \/ \E h \in Handlers : ReviewWrite(h)
  \/ \E h \in Handlers : ReviewRecompute(h)
  \/ \E h \in Handlers : ReviewStore(h)
  \/ \E h \in Handlers : ReviewFail(h)

\* reviews one at a time, any of which may fail at an awaited call; the
\* clock stands still, no step of these handlers compares dates
SpecFail == Init /\ [][NextFail]_vars

\* The interval computations on their own. A review of grade score is
\* scheduled for a memory with reviewCount prior reviews, all of them graded
\* lastScore (0 before the first review), owned by a user with no other
\* reviewed memory: calculateNextReview with the draw k of Math.random(),
\* and the route's computation on that memory and the user's analytics.
CalcInputs ==
  {c \in [score : Scores, reviewCount : 0 .. MaxCount,
          k : 0 .. 2 * JitterHalf, emotion : Emotions, lastScore : Scores] :
     c.reviewCount = 0 => c.lastScore = 0}

\* the memory and the analytics record the route reads for calcIn
CalcMemory(c) ==
  [NoMemory EXCEPT !.userId = 1, !.emotion = c.emotion,
                   !.reviewCount = c.reviewCount, !.lastScore = c.lastScore]

CalcAnalytics(c) ==
  [NewAnalytics EXCEPT !.totalMemories = 1,
                       !.accTotal = c.reviewCount,
                       !.accGood = IF c.lastScore >= 2 THEN c.reviewCount ELSE 0]

InitCalc ==
  /\ InitServer
  /\ storageKind = "mem"
  /\ calcIn \in CalcInputs
  /\ calcOut = NoResult
  /\ dueOut = NoDue
  /\ resp = NoResp
  /\ session = NoSession

Calculate ==
  /\ ~calcOut.called
  /\ calcOut' = [module |-> calculateNextReview(calcIn.score, calcIn.reviewCount,
                                                calcIn.k, now),
                 route |-> GrantedInterval(CalcMemory(calcIn), CalcAnalytics(calcIn),
                                           calcIn.score),
                 called |-> TRUE]
  /\ UNCHANGED <<serverVars, calcIn, dueOut, resp, session>>

NextCalc == Calculate

SpecCalc == InitCalc /\ [][NextCalc]_vars

\* The due query on its own. The store holds one memory, reviewed once at
\* timestamp t0 and granted n days, so that nextReview = t0 + n days; the
\* clock stands at any date of DueDates, in particular at nextReview exactly
\* and 1 ms before it.
DueDates ==
  {[d |-> d, ms |-> ms] : d \in 0 .. MaxDueDay, ms \in {0, 1, DAY_MS - 1}}

ReviewedMemory(u, t0, n) ==
  [NewMemory(1, u, 1, 0) EXCEPT
     !.nextReview = AddDays(t0, n), !.reviewCount = 1, !.lastScore = 2,
     !.createdAt = Epoch]

InitDue ==
  /\ storageKind \in {"mem", "db"}
  /\ now \in DueDates
  /\ \E u \in Users, t0 \in {t \in DueDates : t.d = 0}, n \in 1 .. MaxDueDay :
       /\ memories = <<ReviewedMemory(u, t0, n)>>
       /\ arrays = [a \in ArrIds |->
                      IF a = RowArr(1)
                      THEN <<[timestamp |-> t0, score |-> 2, interval |-> n,
                              notes |-> "null"]>>
                      ELSE <<>>]
       /\ analytics = [v \in Users |->
                         IF v = u THEN [NewAnalytics EXCEPT !.totalMemories = 1,
                                                            !.accGood = 1,
                                                            !.accTotal = 1]
                         ELSE NewAnalytics]
  /\ currentMemoryId = 2
  /\ handlers = [h \in Handlers |-> IdleHandler]
  /\ started = 1
  /\ accepted = [id \in MemIds |-> 1]
  /\ calcIn = NoCall
  /\ calcOut = NoResult
  /\ dueOut = NoDue
  /\ resp = NoResp
  /\ session = NoSession

\* GET /api/memories/due -> storage.getMemoriesDueForReview(session user)
GetDue(u) ==
  /\ \E q \in getMemoriesDueForReview(storageKind, memories, u, now) :
       dueOut' = [called |-> TRUE, user |-> u,
                  ids |-> {q[i] : i \in DOMAIN q}, list |-> q]
  /\ UNCHANGED <<serverVars, calcIn, calcOut, resp, session>>

NextDue == \E u \in Users : GetDue(u)

SpecDue == InitDue /\ [][NextDue]_vars

\* the memories of the due-queue specification
QueueIds == {1, 2, 3}

QueueDates == {[d |-> d, ms |-> ms] : d \in 0 .. MaxDueDay, ms \in {0, 1}}

\* memory id of user u: created at c and not reviewed yet (n = 0), or
\* created at the epoch and reviewed once at c with an interval of n days
QueueMemory(id, u, c, n) ==
  [userId |-> u, emotion |-> 1, descLen |-> 0, tagCount |-> 0,
   nextReview |-> AddDays(c, n),
   reviewCount |-> IF n = 0 THEN 0 ELSE 1,
   lastScore |-> IF n = 0 THEN 0 ELSE 2,
   reviewHistory |-> RowArr(id),
   createdAt |-> IF n = 0 THEN c ELSE Epoch]

\* three memories stored before now, by either user, fresh or reviewed once
InitQueue ==
  /\ storageKind \in {"mem", "db"}
  /\ now \in QueueDates
  /\ \E us \in [QueueIds -> Users],
        cs \in [QueueIds -> {c \in QueueDates : Leq(c, now)}],
        ns \in [QueueIds -> 0 .. MaxDueDay] :
       /\ memories = [id \in QueueIds |-> QueueMemory(id, us[id], cs[id], ns[id])]
       /\ arrays = [a \in ArrIds \cup {RowArr(id) : id \in QueueIds} |->
                      IF \E id \in QueueIds : a = RowArr(id) /\ ns[id] > 0
                      THEN <<[timestamp |-> cs[a[2]], score |-> 2,
                              interval |-> ns[a[2]], notes |-> "null"]>>
                      ELSE <<>>]
       /\ analytics = [u \in Users |->
                         [totalMemories |-> Cardinality({id \in QueueIds : us[id] = u}),
                          dueForReview |-> Cardinality({id \in QueueIds :
                                                         us[id] = u /\ ns[id] = 0}),
                          accGood |-> Cardinality({id \in QueueIds :
                                                    us[id] = u /\ ns[id] > 0}),
                          accTotal |-> Cardinality({id \in QueueIds :
                                                     us[id] = u /\ ns[id] > 0})]]
  /\ currentMemoryId = 4
  /\ handlers = [h \in Handlers |-> IdleHandler]
  /\ started = 0
  /\ accepted = [id \in MemIds |-> 0]
  /\ calcIn = NoCall
  /\ calcOut = NoResult
  /\ dueOut = NoDue
  /\ resp = NoResp
  /\ session = NoSession

\* the due queue asked for over stored memories of both users
SpecQueue == InitQueue /\ [][NextDue]_vars

\* the bodies that set reviewCount
CountBodies == {body \in PutBodies : body.key = "reviewCount"}

NextAccuracy ==
  \/ \E u \in Creators, e \in Emotions, dl \in DescLens : CreateMemory(u, e, dl)
  \/ \E h \in Handlers, id \in MemIds, u \in Users, score \in PostedScores,
        notes \in NotesIn : SeqReviewGet(h, id, u, score, notes)
  \/ \E h \in Handlers : ReviewAnalytics(h)
  \/ \E h \in Handlers : ReviewWrite(h)
  \/ \E h \in Handlers : ReviewRecompute(h)
  \/ \E h \in Handlers : ReviewStore(h)
  \/ \E id \in MemIds, u \in Users, body \in CountBodies : PutMemory(id, u, body)

\* reviews one at a time at one instant, and edits of reviewCount
SpecAccuracy == Init /\ [][NextAccuracy]_vars

(* --------------------------- the review page --------------------------- *)

\* the two revisions of the page: "effect" copies the due list into the
\* session in a useEffect and shuffles it, "onSuccess" copies it in the
\* query's onSuccess in the order received
Pages == {"effect", "onSuccess"}

\* the user of the browser
Reviewer == 1

\* the grades the reviewer gives
Grades == {0, 3}

\* the moments at which the reviewer's memories were captured
CaptureDates == {[d |-> 0, ms |-> 0], [d |-> 0, ms |-> 1]}

\* the page is opened on three memories of the reviewer, all due, and asks
\* for the due list
InitSession ==
  /\ storageKind \in {"mem", "db"}
  /\ now = [d |-> 1, ms |-> 0]
  /\ \E cs \in [QueueIds -> CaptureDates] :
       memories = [id \in QueueIds |-> QueueMemory(id, Reviewer, cs[id], 0)]
  /\ arrays = [a \in ArrIds \cup {RowArr(id) : id \in QueueIds} |-> <<>>]
  /\ analytics = [u \in Users |->
                    IF u = Reviewer
                    THEN [NewAnalytics EXCEPT
                            !.totalMemories = Cardinality(QueueIds),
                            !.dueForReview = Cardinality(QueueIds)]
                    ELSE NewAnalytics]
  /\ currentMemoryId = 4
  /\ handlers = [h \in Handlers |-> IdleHandler]
  /\ started = 0
  /\ accepted = [id \in QueueIds |-> 0]
  /\ calcIn = NoCall
  /\ calcOut = NoResult
  /\ dueOut = NoDue
  /\ resp = NoResp
  /\ \E page \in Pages :
       session = [NoSession EXCEPT !.page = page, !.fetch.state = "sent"]

\* the server answers GET /api/memories/due
FetchAnswer ==
  /\ session.fetch.state = "sent"
  /\ \E q \in getMemoriesDueForReview(storageKind, memories, Reviewer, now) :
       session' = [session EXCEPT !.fetch = [state |-> "answered", data |-> q]]
  /\ UNCHANGED <<serverVars, calcIn, calcOut, dueOut, resp>>

\* [...dueMemories].sort(() => Math.random() - 0.5): the list in any order
Shuffles(list) ==
  {q \in Orders({list[i] : i \in DOMAIN list}) : TRUE}

\* the answer reaches the page: dueMemories is the new list. "effect": the
\* effect runs when dueMemories changed and is not empty; "onSuccess": the
\* callback runs on every answer that is not empty. Either one restarts the
\* session at index 0 in the pre-review phase.
FetchDeliver ==
  /\ session.fetch.state = "answered"
  /\ LET data == session.fetch.data
         changed == ~session.loaded \/ data # session.dueMemories
         restart == /\ Len(data) > 0
                    /\ session.page = "effect" => changed
         lists == IF session.page = "effect" THEN Shuffles(data) ELSE {data}
     IN  \E list \in lists :
           session' = [session EXCEPT
                         !.fetch = NoFetch,
                         !.loaded = TRUE,
                         !.dueMemories = data,
                         !.memories = IF restart THEN list ELSE @,
                         !.currentIndex = IF restart THEN 0 ELSE @,
                         !.phase = IF restart THEN "pre-review" ELSE @]
  /\ UNCHANGED <<serverVars, calcIn, calcOut, dueOut, resp>>

\* the page shows the current memory: the list is loaded and not empty, the
\* session is not completed and memories[currentIndex] exists
Showing ==
  /\ session.loaded
  /\ Len(session.dueMemories) > 0
  /\ session.phase # "completed"
  /\ session.currentIndex < Len(session.memories)

\* session.memories[session.currentIndex]
CurrentMemory == session.memories[session.currentIndex + 1]

\* startReview / the retrieval practice is submitted
StartReview ==
  /\ Showing
  /\ session.phase = "pre-review"
  /\ session' = [session EXCEPT !.phase = "review"]
  /\ UNCHANGED <<serverVars, calcIn, calcOut, dueOut, resp>>

\* submitScore: a grade button is pressed (the buttons are disabled while
\* the mutation is pending) and the review of the current memory is posted
SubmitScore(score) ==
  /\ Showing
  /\ session.phase = "review"
  /\ session.mutation.state = "idle"
  /\ session' = [session EXCEPT
                   !.mutation = [state |-> "sent", id |-> CurrentMemory,
                                 score |-> score, status |-> 0]]
  /\ UNCHANGED <<serverVars, calcIn, calcOut, dueOut, resp>>

\* the server handles the posted review from its first line to its last
ServeReview ==
  /\ session.mutation.state = "sent"
  /\ LET id == session.mutation.id
         score == session.mutation.score
     IN  IF NotFound(memories, id, Reviewer)
         THEN /\ session' = [session EXCEPT !.mutation.state = "answered",
                                            !.mutation.status = 404]
              /\ UNCHANGED <<memories, arrays, analytics, accepted>>
         ELSE LET l == [IdleHandler EXCEPT
                          !.id = id, !.user = Reviewer, !.score = score,
                          !.notes = "text", !.now = now,
                          !.reviewCount = memories[id].reviewCount + 1,
                          !.memory = memories[id],
                          !.userAnalytics = analytics[Reviewer]]
                  intervalDays == GrantedInterval(l.memory, l.userAnalytics, score)
                  ref == memories[id].reviewHistory
                  pushed == PushRecord(arrays[ref], ReviewRecord(l, intervalDays))
                  mems == updateMemory(memories, id, AddDays(now, intervalDays),
                                       l.reviewCount, score, ref)
                  arrs == [arrays EXCEPT ![ref] = pushed]
              IN  /\ memories' = mems
                  /\ arrays' = arrs
                  /\ analytics' = updateUserAnalyticsAfterReview(analytics, mems,
                                                                 arrs, Reviewer, now)
                  /\ accepted' = [accepted EXCEPT ![id] = @ + 1]
                  /\ session' = [session EXCEPT !.mutation.state = "answered",
                                                !.mutation.status = 200]
  /\ UNCHANGED <<storageKind, currentMemoryId, handlers, now, started,
                 calcIn, calcOut, dueOut, resp>>

\* the answer to the posted review reaches the page. onSuccess: the due
\* query is invalidated, which drops a request still under way and sends a
\* new one, and the session moves to the next memory or is completed.
\* onError: a toast.
ReviewDeliver ==
  /\ session.mutation.state = "answered"
  /\ session' =
       IF session.mutation.status = 200
       THEN [session EXCEPT
               !.mutation = NoMutation,
               !.fetch = [state |-> "sent", data |-> <<>>],
               !.currentIndex =
                  IF session.currentIndex + 1 < Len(session.memories)
                  THEN @ + 1 ELSE @,
               !.phase =
                  IF session.currentIndex + 1 < Len(session.memories)
                  THEN "pre-review" ELSE "completed"]
       ELSE [session EXCEPT !.mutation = NoMutation]
  /\ UNCHANGED <<serverVars, calcIn, calcOut, dueOut, resp>>

NextSession ==
  \/ FetchAnswer
  \/ FetchDeliver
  \/ StartReview
  \/ \E score \in Grades : SubmitScore(score)
  \/ ServeReview
  \/ ReviewDeliver

\* one review session of one browser against the server
SpecSession == InitSession /\ [][NextSession]_vars

\* the bodies the edit form sends
FormBodies == {body \in PutBodies : body.key = "emotion"}

NextDel ==
  \/ \E u \in Creators, e \in Emotions, dl \in DescLens : CreateMemory(u, e, dl)
  \/ \E h \in Handlers, id \in MemIds, u \in Users, score \in PostedScores,
        notes \in NotesIn : SeqReviewGet(h, id, u, score, notes)
  \/ \E h \in Handlers : ReviewAnalytics(h)
  \/ \E h \in Handlers : ReviewWrite(h)
  \/ \E h \in Handlers : ReviewRecompute(h)
  \/ \E h \in Handlers : ReviewStore(h)
  \/ \E id \in MemIds, u \in Users, body \in FormBodies : PutMemory(id, u, body)
  \/ \E id \in MemIds, u \in Users : DeleteMemory(id, u)
  \/ \E u \in Users : GetDue(u)

\* memories created, reviewed one at a time, edited through the form,
\* deleted and listed as due; the clock stands still
SpecDel == Init /\ [][NextDel]_vars

(* ------------------------------ claims -------------------------------- *)

AllIdle == \A h \in Handlers : handlers[h].pc = "idle"

\* C1: with review submissions applied one after the other, a memory's
\* reviewCount equals the number of reviews written for it so far: every
\* accepted review adds exactly 1 and the count never goes down.
C1_CountEqualsAccepted ==
  \A id \in DOMAIN memories : memories[id].reviewCount = accepted[id]

C1_Witness ==
  \E id \in DOMAIN memories : accepted[id] = MaxReviews /\ memories[id].reviewCount = MaxReviews

\* C2: with review submissions applied one at a time, the length of a
\* memory's reviewHistory equals its reviewCount in every state.
C2_HistoryLengthIsCount ==
  \A id \in DOMAIN memories :
    Len(HistoryOf(memories, arrays, id)) = memories[id].reviewCount

C2_Witness ==
  \E id \in DOMAIN memories :
    /\ memories[id].reviewCount = MaxReviews
    /\ Len(HistoryOf(memories, arrays, id)) = MaxReviews

\* C3: once the review submissions in flight have completed, reviewCount and
\* the length of reviewHistory both equal the number of reviews written: no
\* increment and no history record is lost or duplicated.
C3_NoLostUpdate ==
  AllIdle =>
    \A id \in DOMAIN memories :
      /\ memories[id].reviewCount = accepted[id]
      /\ Len(HistoryOf(memories, arrays, id)) = accepted[id]

\* C4: a review whose score is not one of 0, 1, 2, 3 is rejected and changes
\* nothing: no memory ever carries such a lastScore and no reviewHistory
\* holds a record with such a score.
C4_InvalidScoreRejected ==
  \A id \in DOMAIN memories :
    /\ memories[id].lastScore \in ValidScores
    /\ \A i \in DOMAIN HistoryOf(memories, arrays, id) :
         HistoryOf(memories, arrays, id)[i].score \in ValidScores

\* the base interval policy as the specification tabulates it
PolicyTable(score, n) ==
  CASE score = 0 -> 1
    [] score = 1 -> Max(1, n \div 2)
    [] score = 2 -> Max(1, n * 2)
    [] score = 3 -> Max(1, n * 4)

\* C5: with zero jitter (Math.random() = 0.5) calculateNextReview returns
\* the base interval of the policy table for every score in 0..3 and every
\* reviewCount; (score 2, count 3) gives 6 and (score 3, count 2) gives 8.
C5_ZeroJitterIsBase ==
  (calcOut.called /\ calcIn.k = JitterHalf /\ calcIn.score \in ValidScores) =>
    /\ calcOut.module.interval = PolicyTable(calcIn.score, calcIn.reviewCount)
    /\ (calcIn.score = 2 /\ calcIn.reviewCount = 3 => calcOut.module.interval = 6)
    /\ (calcIn.score = 3 /\ calcIn.reviewCount = 2 => calcOut.module.interval = 8)

C5_Witness ==
  /\ calcOut.called /\ calcIn.k = JitterHalf
  /\ calcIn.score = 1 /\ calcIn.reviewCount = 5
  /\ calcOut.module.interval = 2

\* the interval calculateNextReview may return for (score, n) under some
\* draw of the jitter
PolicyIntervals(score, n) ==
  {ApplyJitter(PolicyTable(score, n), k) : k \in 0 .. 2 * JitterHalf}

\* the AI prediction the route starts from for the review in calcIn
CalcPrediction == optimizeReviewInterval(CalcMemory(calcIn), CalcAnalytics(calcIn))

\* C6 (as claimed): for the same score and pre-review reviewCount the route
\* handler grants the policy interval of calculateNextReview, up to jitter.
C6_RouteGrantsPolicyInterval ==
  (calcOut.called /\ calcIn.score \in ValidScores) =>
    calcOut.route \in PolicyIntervals(calcIn.score, calcIn.reviewCount)

\* C6 (amended): the route handler and calculateNextReview agree on Again,
\* both granting exactly 1 day; for the other grades the handler grants the
\* adjusted AI prediction p >= 1 (Hard max(1, floor(0.7 p)), Good p, Easy
\* floor(1.5 p)) and not the policy interval.
C6_RouteGrantsAdjustedPrediction ==
  calcOut.called =>
    LET p == CalcPrediction
    IN  /\ p >= 1
        /\ (calcIn.score = 0 => calcOut.route = 1 /\ calcOut.module.interval = 1)
        /\ (calcIn.score = 1 => calcOut.route = Max(1, (7 * p) \div 10))
        /\ (calcIn.score = 2 => calcOut.route = p)
        /\ (calcIn.score = 3 => calcOut.route = (3 * p) \div 2)

C6_Witness ==
  /\ calcOut.called /\ calcIn.score = 3 /\ calcIn.reviewCount = 2
  /\ calcOut.route \notin PolicyIntervals(calcIn.score, calcIn.reviewCount)
  /\ calcOut.route = (3 * CalcPrediction) \div 2

C8_AgainIsOneDay ==
  (calcOut.called /\ calcIn.score = 0) =>
    calcOut.module.interval = 1 /\ calcOut.route = 1

C8_Witness ==
  /\ calcOut.called /\ calcIn.score = 0 /\ calcIn.k = 0
  /\ calcIn.reviewCount = MaxCount
  /\ calcOut.module.interval = 1 /\ calcOut.route = 1

\* C9: the jittered interval lies between max(1, floor(0.9 b)) and
\* floor(1.1 b) inclusive, b being the base interval.
C9_JitterRange ==
  calcOut.called =>
    LET b == BaseInterval(calcIn.score, calcIn.reviewCount)
    IN  /\ calcOut.module.interval >= Max(1, (9 * b) \div 10)
        /\ calcOut.module.interval <= (11 * b) \div 10

C9_Witness ==
  /\ calcOut.called
  /\ BaseInterval(calcIn.score, calcIn.reviewCount) = 20
  /\ calcOut.module.interval = 18

\* C10 (as claimed): a first review (reviewCount 0) yields exactly 1 day
\* whatever the grade and the jitter, in calculateNextReview and in the
\* route handler.
C10_FirstReviewIsOneDay ==
  (calcOut.called /\ calcIn.reviewCount = 0 /\ calcIn.score \in ValidScores) =>
    calcOut.module.interval = 1 /\ calcOut.route = 1

\* C10 (amended): calculateNextReview yields exactly 1 day for a first
\* review whatever the grade and the jitter, and 4 days before jitter for
\* Easy at reviewCount 1; the route handler yields 1 day for a first review
\* graded Again and at least 1 day, from the AI prediction, otherwise.
C10_FirstReviewModuleOneDay ==
  calcOut.called =>
    /\ (calcIn.reviewCount = 0 /\ calcIn.score \in ValidScores =>
          calcOut.module.interval = 1)
    /\ (calcIn.reviewCount = 1 /\ calcIn.score = 3 /\ calcIn.k = JitterHalf =>
          calcOut.module.interval = 4)
    /\ (calcIn.reviewCount = 0 /\ calcIn.score = 0 => calcOut.route = 1)
    /\ (calcIn.reviewCount = 0 /\ calcIn.score \in ValidScores => calcOut.route >= 1)

C10_Witness ==
  /\ calcOut.called /\ calcIn.reviewCount = 0 /\ calcIn.score = 3
  /\ calcIn.k = 2 * JitterHalf - 1 /\ calcIn.emotion = 10
  /\ calcOut.module.interval = 1 /\ calcOut.route = 3

\* milliseconds since the start of the run
ToMs(t) == t.d * DAY_MS + t.ms

\* C15: the due list returned for a user holds a memory of that user if and
\* only if its nextReview <= now: it holds a memory whose nextReview equals
\* now exactly, and not one whose nextReview is 1 millisecond after now.
C15_DueIffNotAfterNow ==
  dueOut.called =>
    \A id \in DOMAIN memories :
      memories[id].userId = dueOut.user =>
        /\ id \in dueOut.ids <=> ToMs(memories[id].nextReview) <= ToMs(now)
        /\ memories[id].nextReview = now => id \in dueOut.ids
        /\ memories[id].nextReview = AddMs(now) => id \notin dueOut.ids

C15_Witness ==
  /\ dueOut.called
  /\ memories[1].userId = dueOut.user
  /\ now.ms = DAY_MS - 1
  /\ memories[1].nextReview = AddMs(now)
  /\ dueOut.ids = {}

\* the most recent record of a non-empty history
LastRecord(hist) == hist[Len(hist)]

\* date t2 is not earlier than date t1
NotBefore(t2, t1) == t2.d > t1.d \/ (t2.d = t1.d /\ t2.ms >= t1.ms)

C12_NextReviewIsNowPlusInterval ==
  /\ \A id \in DOMAIN memories :
       LET hist == HistoryOf(memories, arrays, id)
       IN  Len(hist) > 0 =>
             /\ memories[id].nextReview.d =
                  LastRecord(hist).timestamp.d + LastRecord(hist).interval
             /\ memories[id].nextReview.ms = LastRecord(hist).timestamp.ms
  /\ \A h \in Handlers :
       (handlers[h].pc = "recompute" /\ handlers[h].id \in DOMAIN memories) =>
         LastRecord(HistoryOf(memories, arrays, handlers[h].id)).timestamp
           = handlers[h].now

C12_Witness ==
  \E id \in DOMAIN memories :
    LET hist == HistoryOf(memories, arrays, id)
    IN  /\ Len(hist) > 0
        /\ LastRecord(hist).timestamp = [d |-> 0, ms |-> 1]
        /\ LastRecord(hist).interval = 2
        /\ memories[id].nextReview = [d |-> 2, ms |-> 1]
        /\ now = [d |-> 0, ms |-> 1]

\* C13: across any sequence of reviews, a step either leaves a memory's
\* reviewHistory as it is, or it is a review being written, and then the new
\* history is the old one with exactly one record appended at the end.
C13_HistoryAppendOnly ==
  [][\A id \in DOMAIN memories :
       id \in DOMAIN memories' =>
         LET old == HistoryOf(memories, arrays, id)
             new == HistoryOf(memories', arrays', id)
         IN  \/ accepted'[id] = accepted[id] /\ new = old
             \/ /\ accepted'[id] = accepted[id] + 1
                /\ Len(new) = Len(old) + 1
                /\ SubSeq(new, 1, Len(old)) = old]_vars

C13_Witness ==
  \E id \in DOMAIN memories :
    LET hist == HistoryOf(memories, arrays, id)
    IN  /\ Len(hist) = 2
        /\ hist[1].score = 3 /\ hist[2].score = 0
        /\ hist[1].timestamp = Epoch /\ hist[2].timestamp # Epoch

\* C14: the record appended by an accepted review carries the review's
\* timestamp now, the submitted score, the granted interval in days and the
\* submitted notes (null for no notes), and lastScore becomes the submitted
\* score; whenever reviewCount > 0, lastScore is the score of the last
\* reviewHistory record.
C14_RecordCarriesReview ==
  /\ \A id \in DOMAIN memories :
       memories[id].reviewCount > 0 =>
         /\ Len(HistoryOf(memories, arrays, id)) > 0
         /\ memories[id].lastScore = LastRecord(HistoryOf(memories, arrays, id)).score
  /\ \A h \in Handlers :
       (handlers[h].pc = "recompute" /\ handlers[h].id \in DOMAIN memories) =>
         LET l == handlers[h]
             rec == LastRecord(HistoryOf(memories, arrays, l.id))
         IN  /\ rec.timestamp = l.now
             /\ rec.score = l.score
             /\ rec.interval = memories[l.id].nextReview.d - l.now.d
             /\ rec.notes = (IF l.notes = "" THEN "null" ELSE l.notes)
             /\ memories[l.id].lastScore = l.score

C14_Witness ==
  \E h \in Handlers :
    LET l == handlers[h]
    IN  /\ l.pc = "recompute" /\ l.id \in DOMAIN memories
        /\ l.score = 1 /\ l.notes = "n" /\ l.memory.lastScore = 3
        /\ LastRecord(HistoryOf(memories, arrays, l.id)) =
             [timestamp |-> l.now, score |-> 1,
              interval |-> memories[l.id].nextReview.d - l.now.d, notes |-> "n"]
        /\ memories[l.id].lastScore = 1

\* C16: a memory no review has been written for has reviewCount 0, lastScore
\* 0, an empty reviewHistory and nextReview equal to its creation time, and
\* is in its owner's due list from its creation on.
C16_NewMemoryIsDue ==
  \A id \in DOMAIN memories :
    accepted[id] = 0 =>
      /\ memories[id].reviewCount = 0
      /\ memories[id].lastScore = 0
      /\ HistoryOf(memories, arrays, id) = <<>>
      /\ memories[id].nextReview = memories[id].createdAt
      /\ NotBefore(now, memories[id].createdAt)
      /\ id \in DueOf(memories, memories[id].userId, now)

C16_Witness ==
  \E id \in DOMAIN memories :
    /\ accepted[id] = 0
    /\ memories[id].createdAt = [d |-> 0, ms |-> 1]
    /\ now = memories[id].createdAt
    /\ memories[id].nextReview = now
    /\ id \in DueOf(memories, memories[id].userId, now)
    /\ analytics[memories[id].userId].dueForReview = 1

\* C17: reviewCount, lastScore, nextReview and reviewHistory of an existing
\* memory change only in the step in which a review is written: every other
\* step, an edit through PUT /api/memories/:id with any body included, leaves
\* the four fields as they are.
C17_OnlyReviewChangesSchedule ==
  [][\A id \in DOMAIN memories :
       (id \in DOMAIN memories' /\ accepted'[id] = accepted[id]) =>
         /\ memories'[id].reviewCount = memories[id].reviewCount
         /\ memories'[id].lastScore = memories[id].lastScore
         /\ memories'[id].nextReview = memories[id].nextReview
         /\ HistoryOf(memories', arrays', id) = HistoryOf(memories, arrays, id)]_vars

\* handler h answers 500 in this step
Fails(h) ==
  handlers[h].pc # "idle" /\ handlers'[h].pc = "idle" /\ handlers'[h].status = 500

\* handler h writes its review in this step
Writes(h) ==
  /\ handlers[h].pc = "predict" /\ handlers'[h].pc = "recompute"
  /\ handlers[h].id \in DOMAIN memories

\* C18 (as claimed): the interval a review is granted is the same whatever
\* the AI service returns for the memory (here: whatever the emotion the
\* prediction is computed from), and a failing AI call does not prevent the
\* review from being applied.
C18_SchedulingIndependentOfAI ==
  [][\A h \in Handlers :
       /\ Writes(h) =>
            \A e \in Emotions :
              GrantedInterval([handlers[h].memory EXCEPT !.emotion = e],
                              handlers[h].userAnalytics, handlers[h].score)
                = LastRecord(HistoryOf(memories', arrays', handlers[h].id)).interval
       /\ handlers[h].pc = "predict" => ~Fails(h)]_vars

\* C18 (amended): only a review graded Again is scheduled independently of
\* the AI service (1 day); for every other score the granted interval is the
\* AI prediction p adjusted by the score (Hard max(1, floor(0.7 p)), Good p,
\* Easy floor(1.5 p), any other score p). When the AI call fails the
\* submission is answered 500 and no review is applied.
C18_OnlyAgainIndependentOfAI ==
  [][\A h \in Handlers :
       /\ Writes(h) =>
            LET l == handlers[h]
                p == optimizeReviewInterval(l.memory, l.userAnalytics)
                granted == LastRecord(HistoryOf(memories', arrays', l.id)).interval
            IN  /\ l.score = 0 => granted = 1
                /\ l.score = 1 => granted = Max(1, (7 * p) \div 10)
                /\ l.score = 2 => granted = p
                /\ l.score = 3 => granted = (3 * p) \div 2
                /\ l.score \notin ValidScores => granted = p
       /\ (handlers[h].pc = "predict" /\ Fails(h)) =>
            /\ memories' = memories
            /\ accepted' = accepted
            /\ HistoryOf(memories', arrays', handlers[h].id)
                 = HistoryOf(memories, arrays, handlers[h].id)]_vars

\* a first review graded Good was granted 2 days because the memory's
\* emotion is 10 (it is 1 day for emotion 1), and a later review failed
C18_Witness ==
  /\ 1 \in DOMAIN memories
  /\ memories[1].emotion = 10
  /\ HistoryOf(memories, arrays, 1) # <<>>
  /\ HistoryOf(memories, arrays, 1)[1].score = 2
  /\ HistoryOf(memories, arrays, 1)[1].interval = 2
  /\ GrantedInterval([NewMemory(1, 1, 1, 0) EXCEPT !.emotion = 1], NewAnalytics, 2) = 1
  /\ accepted[1] = 1
  /\ started = 2
  /\ \E h \in Handlers : handlers[h].pc = "idle" /\ handlers[h].status = 500

\* C19: a review submission that ends in a failure response leaves the
\* memory's reviewCount, lastScore, nextReview and reviewHistory exactly as
\* they were when the request read the memory.
C19_FailureLeavesMemoryUnchanged ==
  [][\A h \in Handlers :
       (Fails(h) /\ handlers[h].id \in DOMAIN memories') =>
         LET l == handlers[h]
         IN  /\ memories'[l.id].reviewCount = l.memory.reviewCount
             /\ memories'[l.id].lastScore = l.memory.lastScore
             /\ memories'[l.id].nextReview = l.memory.nextReview
             /\ Len(HistoryOf(memories', arrays', l.id)) = l.memory.reviewCount]_vars

\* C20: a review does not change the memory record a reader loaded earlier:
\* a handler that has read the memory and not yet pushed its own record
\* still holds a record whose reviewHistory has as many records as its
\* reviewCount says, whatever other reviews have been applied meanwhile.
C20_ReadersSeeOldHistory ==
  \A h \in Handlers :
    handlers[h].pc \in {"analytics", "predict"} =>
      Len(arrays[handlers[h].memory.reviewHistory]) = handlers[h].memory.reviewCount

\* C22: for a fixed reviewCount and a fixed jitter draw the interval does not
\* decrease with the grade, Again <= Hard <= Good <= Easy, in
\* calculateNextReview and in the route handler's adjustment of one
\* prediction.
C22_MonotoneInGrade ==
  (calcOut.called /\ calcIn.score \in {0, 1, 2}) =>
    /\ calcOut.module.interval
         <= calculateNextReview(calcIn.score + 1, calcIn.reviewCount, calcIn.k, now).interval
    /\ calcOut.route
         <= GrantedInterval(CalcMemory(calcIn), CalcAnalytics(calcIn), calcIn.score + 1)

C22_Witness ==
  /\ calcOut.called /\ calcIn.score = 1 /\ calcIn.reviewCount = 3
  /\ calcIn.k = JitterHalf
  /\ calcOut.module.interval = 1
  /\ calculateNextReview(2, 3, JitterHalf, now).interval = 6
  /\ calcOut.route < GrantedInterval(CalcMemory(calcIn), CalcAnalytics(calcIn), 2)

\* C23: for a fixed score and a fixed jitter draw the interval of
\* calculateNextReview does not decrease when reviewCount grows by one.
C23_MonotoneInCount ==
  (calcOut.called /\ calcIn.score \in ValidScores) =>
    calcOut.module.interval
      <= calculateNextReview(calcIn.score, calcIn.reviewCount + 1, calcIn.k, now).interval

C23_Witness ==
  /\ calcOut.called /\ calcIn.score = 2 /\ calcIn.reviewCount = 2 /\ calcIn.k = 0
  /\ calcOut.module.interval = 3
  /\ calculateNextReview(2, 3, 0, now).interval = 5

\* C25 (as claimed): for every base interval b with 1 <= b <= 10 the
\* jittered interval is at most b, and it is b whenever the jitter is not
\* negative.
C25_JitterNeverLengthens ==
  calcOut.called =>
    LET b == BaseInterval(calcIn.score, calcIn.reviewCount)
    IN  (1 <= b /\ b <= 10) =>
          /\ calcOut.module.interval <= b
          /\ calcIn.k >= JitterHalf => calcOut.module.interval = b

\* C25 (amended): for 1 <= b <= 9 the jittered interval is at most b and is b
\* whenever the jitter is not negative; for b = 10 the same holds for every
\* draw of Math.random() but the largest double below 1, for which
\* 1 + jitter is the double 1.1 and the interval is 11.
C25_JitterLengthensOnlyTenOnTopDraw ==
  calcOut.called =>
    LET b == BaseInterval(calcIn.score, calcIn.reviewCount)
    IN  (1 <= b /\ b <= 10) =>
          IF b = 10 /\ calcIn.k = 2 * JitterHalf
          THEN calcOut.module.interval = 11
          ELSE /\ calcOut.module.interval <= b
               /\ calcIn.k >= JitterHalf => calcOut.module.interval = b

C25_Witness ==
  /\ calcOut.called
  /\ calcIn.score = 2 /\ calcIn.reviewCount = 5
  /\ BaseInterval(calcIn.score, calcIn.reviewCount) = 10
  /\ calcIn.k = 2 * JitterHalf
  /\ calcOut.module.interval = 11

\* C24: from the review's timestamp now until one full day after it, a
\* reviewed memory is not in its owner's due list: whatever score the
\* handler was given, the interval it granted is at least 1 day.
C24_NotDueWithinADay ==
  \A id \in DOMAIN memories :
    LET hist == HistoryOf(memories, arrays, id)
    IN  Len(hist) > 0 =>
          /\ LastRecord(hist).interval >= 1
          /\ NotBefore(now, LastRecord(hist).timestamp)
          /\ ~NotBefore(now, [d |-> LastRecord(hist).timestamp.d + 1,
                              ms |-> LastRecord(hist).timestamp.ms])
               => id \notin DueOf(memories, memories[id].userId, now)

C24_Witness ==
  \E id \in DOMAIN memories :
    LET hist == HistoryOf(memories, arrays, id)
    IN  /\ Len(hist) = 1
        /\ hist[1].score = 0 /\ hist[1].interval = 1
        /\ hist[1].timestamp = Epoch
        /\ now = [d |-> 0, ms |-> 1]
        /\ id \notin DueOf(memories, memories[id].userId, now)
        /\ analytics[memories[id].userId].dueForReview = 0

\* a DELETE request is answered with this status in this step
DeleteAnswered(status) ==
  /\ resp' # resp
  /\ resp'.op = "delete" /\ resp'.status = status

\* C21: a memory leaves the store only in the step of a successful delete,
\* and that step does remove it; an id that was handed out and is no longer
\* stored never comes back, no review is written for it, no due list
\* returned afterwards holds it, and a review request arriving for an id
\* that is not stored is answered 404 without a handler taking it up.
C21_StateDiesWithMemory ==
  [][/\ DeleteAnswered(200) =>
          \E id \in DOMAIN memories : id \notin DOMAIN memories'
     /\ \A id \in MemIds :
          /\ (id \in DOMAIN memories /\ id \notin DOMAIN memories') =>
               DeleteAnswered(200)
          /\ (id < currentMemoryId /\ id \notin DOMAIN memories) =>
               /\ id \notin DOMAIN memories'
               /\ accepted'[id] = accepted[id]
               /\ dueOut' # dueOut => id \notin dueOut'.ids
     /\ \A h \in Handlers :
          (handlers[h].pc = "idle" /\ handlers'[h] # handlers[h]) =>
            IF handlers'[h].pc = "idle" THEN handlers'[h].status = 404
            ELSE handlers'[h].id \in DOMAIN memories]_vars

C21_Witness ==
  /\ currentMemoryId = 2
  /\ 1 \notin DOMAIN memories
  /\ resp.op = "delete" /\ resp.id = 1 /\ resp.user = 1 /\ resp.status = 200
  /\ started = MaxReviews
  /\ \E h \in Handlers : handlers[h].pc = "idle" /\ handlers[h].status = 404
  /\ dueOut.called /\ dueOut.user = 1 /\ dueOut.ids = {}
  /\ analytics[1].totalMemories = 0

\* an edit or delete request is answered in this step
Answered ==
  resp' # resp /\ resp'.op \in {"put", "delete"}

C29_AnalyticsAgreeWithStore ==
  AllIdle =>
    \A u \in Users :
      /\ analytics[u].totalMemories = Cardinality(MemoriesOf(memories, u))
      /\ analytics[u].dueForReview = Cardinality(DueOf(memories, u, now))

\* the whole part of the stored accuracyRate, (goodReviews / totalReviews) * 100
AccuracyPercent(an) ==
  IF an.accTotal = 0 THEN 0 ELSE (100 * an.accGood) \div an.accTotal

\* every memory of the user has as many history records as its reviewCount
HistoryMatchesCount(u) ==
  \A id \in MemoriesOf(memories, u) :
    Len(HistoryOf(memories, arrays, id)) = memories[id].reviewCount

\* C30: once updateUserAnalyticsAfterReview has run over memories whose
\* reviewHistory length equals their reviewCount, the stored accuracyRate is
\* a percentage between 0 and 100, equal to 100 times the number of history
\* records with score >= 2 divided by the total reviewCount, and 0 when the
\* user has no reviews.
C30_AccuracyIsGoodShare ==
  \A u \in Users :
    (AllIdle /\ HistoryMatchesCount(u)) =>
      LET owned == MemoriesOf(memories, u)
          total == SumOver(owned, [id \in owned |-> memories[id].reviewCount])
          good == SumOver(owned,
                    [id \in owned |->
                       Cardinality({i \in DOMAIN HistoryOf(memories, arrays, id) :
                                      HistoryOf(memories, arrays, id)[i].score >= 2})])
      IN  /\ AccuracyPercent(analytics[u]) \in 0..100
          /\ IF total = 0
             THEN analytics[u].accGood = 0 /\ analytics[u].accTotal = 0
             ELSE /\ analytics[u].accTotal > 0
                  /\ 100 * analytics[u].accGood * total
                       = 100 * good * analytics[u].accTotal

C30_Witness ==
  /\ AllIdle
  /\ \E h \in Handlers : handlers[h].status = 200
  /\ \E u \in Users :
       /\ HistoryMatchesCount(u)
       /\ analytics[u].accTotal = 2
       /\ analytics[u].accGood = 1
       /\ AccuracyPercent(analytics[u]) = 50

\* the answer lists exactly the user's memories with nextReview <= now, each
\* once, in non-decreasing order of nextReview
DueQueueAnswer ==
  /\ dueOut.ids = {id \in DOMAIN memories :
                     /\ memories[id].userId = dueOut.user
                     /\ Leq(memories[id].nextReview, now)}
  /\ \A i \in DOMAIN dueOut.list : memories[dueOut.list[i]].userId = dueOut.user
  /\ Len(dueOut.list) = Cardinality(dueOut.ids)
  /\ \A i \in 1 .. Len(dueOut.list) - 1 :
       Leq(memories[dueOut.list[i]].nextReview,
           memories[dueOut.list[i + 1]].nextReview)

\* two memories in the answer have the same nextReview
DueQueueTie ==
  \E i, j \in DOMAIN dueOut.list :
    i # j /\ memories[dueOut.list[i]].nextReview = memories[dueOut.list[j]].nextReview

\* C27: the due queue returned for a user contains exactly that user's
\* memories with nextReview <= now, never a memory of another user, in
\* non-decreasing order of nextReview, and both storage implementations
\* return the same queue for the same stored memories.
C27_SameQueueFromBothStorages ==
  dueOut.called =>
    /\ DueQueueAnswer
    /\ getMemoriesDueForReview("db", memories, dueOut.user, now)
         = getMemoriesDueForReview("mem", memories, dueOut.user, now)

\* C27 (amended): the membership, ownership and order hold for both
\* storages, which return the same memories; they return the same list
\* when no two due memories of the user share a nextReview, and
\* DatabaseStorage may list memories with equal nextReview in any order.
C27_SameQueueUpToTies ==
  dueOut.called =>
    /\ DueQueueAnswer
    /\ \A q \in getMemoriesDueForReview("db", memories, dueOut.user, now) :
         {q[i] : i \in DOMAIN q} = dueOut.ids
    /\ MemDueQueue(memories, dueOut.user, now)
         \in getMemoriesDueForReview("db", memories, dueOut.user, now)
    /\ ~DueQueueTie =>
         getMemoriesDueForReview("db", memories, dueOut.user, now)
           = getMemoriesDueForReview("mem", memories, dueOut.user, now)

C27_Witness ==
  /\ dueOut.called
  /\ storageKind = "db"
  /\ Len(dueOut.list) = 2
  /\ DueQueueTie
  /\ dueOut.list # MemDueQueue(memories, dueOut.user, now)
  /\ \E id \in DOMAIN memories :
       memories[id].userId # dueOut.user /\ Leq(memories[id].nextReview, now)

\* C28: within one review session of the page each due memory is graded at
\* most once: after a review was submitted successfully the session moves
\* to the next memory or to the completed phase, and a due list asked for
\* earlier and arriving late never brings a reviewed memory back for a
\* second grading.
C28_GradedAtMostOnce ==
  /\ \A id \in DOMAIN accepted : accepted[id] <= 1
  /\ Showing => accepted[CurrentMemory] = 0 \/ session.mutation.id = CurrentMemory

====
